---- MODULE Spec2Model ----
(***************************************************************************)
(* Oracle Fusion AR MCP server (src/server.py): the six tools, the         *)
(* upstream REST collaborator they fetch from, and the aggregation and     *)
(* aging-classification logic, as a state machine.                         *)
(*                                                                         *)
(* Conventions of the translation                                          *)
(*  - A JSON/Python optional value is None (<<>>) or Some(v) (<<v>>);      *)
(*    dict.get(key) of an absent key and a JSON null are both None.        *)
(*  - Money is an integer number of units of 0.005.  Upstream amounts are  *)
(*    multiples of 25 units (eighths: 0.125, 0.25, ...), which are exact   *)
(*    binary floats, so float sums are exact and round(x, 2) is exactly    *)
(*    round-half-to-even on the decimal value; a value with at most two    *)
(*    decimals is an even number of units.                                 *)
(*  - A date text "YYYY-MM-DD<tail>" is the tuple <<y, m, d, tail>>; the   *)
(*    empty string is <<>>; a JSON number in a date field is <<n>>.        *)
(*  - A JSON object is a TLA+ record with the same keys.                   *)
(***************************************************************************)
EXTENDS Integers, Sequences, FiniteSets, TLC

VARIABLES
    CONFIG,        \* module-level dict (server.py 24-28)
    upInvoices,    \* upstream receivablesInvoices resource
    upReceipts,    \* upstream standardReceipts resource
    upActivities,  \* upstream receivablesCustomerAccountActivities resource
    calls          \* per-invocation frame: position and locals of each tool call

vars == <<CONFIG, upInvoices, upReceipts, upActivities, calls>>

-----------------------------------------------------------------------------
(* Bounds of the model *)

NumCalls == 2          \* invocation slots
MaxInvoices == 2       \* length of upstream invoice lists (general data)
MaxReceipts == 1       \* length of upstream receipt lists (general data)
MaxAgingLen == 3       \* length of upstream invoice lists (aging data)
BulkExtra == 1         \* upstream records beyond the summary's page size

Calls == 1..NumCalls

-----------------------------------------------------------------------------
(* Optional values *)

None == <<>>
Some(v) == <<v>>

\* Python `x or 0` on a number-or-None
OrZero(x) == IF x = None THEN 0 ELSE x[1]

RECURSIVE SumRange(_, _, _, _)
\* the terms lo..hi of the sum below, added by halves: the values are exact,
\* so the grouping of Python's left-to-right sum does not matter
SumRange(records, field, lo, hi) ==
    IF lo > hi THEN 0
    ELSE IF lo = hi THEN OrZero(records[lo][field])
    ELSE LET mid == (lo + hi) \div 2
         IN  SumRange(records, field, lo, mid) + SumRange(records, field, mid + 1, hi)

\* sum((r.get(field) or 0) for r in records)
SumOrZero(records, field) == SumRange(records, field, 1, Len(records))

\* Python round(x, 2): round-half-to-even to a whole number of cents (2 units)
Round2(x) ==
    LET q == x \div 2
    IN  IF x % 2 = 0 THEN x
        ELSE IF q % 2 = 0 THEN 2 * q ELSE 2 * (q + 1)

-----------------------------------------------------------------------------
(* Calendar: datetime.fromisoformat(...).date() and date subtraction *)

IsLeap(y) == (y % 4 = 0 /\ y % 100 # 0) \/ y % 400 = 0

DaysInMonth(y, m) ==
    IF m = 2 THEN (IF IsLeap(y) THEN 29 ELSE 28)
    ELSE IF m \in {4, 6, 9, 11} THEN 30 ELSE 31

DaysBeforeYear(y) ==
    (y - 1) * 365 + (y - 1) \div 4 - (y - 1) \div 100 + (y - 1) \div 400

RECURSIVE DaysBeforeMonth(_, _)
DaysBeforeMonth(y, m) ==
    IF m = 1 THEN 0 ELSE DaysBeforeMonth(y, m - 1) + DaysInMonth(y, m - 1)

\* date.toordinal()
ToOrdinal(d) == DaysBeforeYear(d[1]) + DaysBeforeMonth(d[1], d[2]) + d[3]

\* (a - b).days
DaysBetween(a, b) == ToOrdinal(a) - ToOrdinal(b)

\* str.replace("Z", "+00:00") on the text's tail
ReplaceZ(text) ==
    IF text[4] = "T23:30:00Z" THEN <<text[1], text[2], text[3], "T23:30:00+00:00">>
    ELSE text

\* whether datetime.fromisoformat accepts the text
IsoParseable(text) ==
    /\ text[1] \in 1..9999
    /\ text[2] \in 1..12
    /\ text[3] \in 1..DaysInMonth(text[1], text[2])
    /\ text[4] \in {"", "T23:30:00+00:00"}

\* try: datetime.fromisoformat(s.replace("Z", "+00:00")).date()  except: ...
\* A value that is no string has no .replace (AttributeError).
ParseDueDate(s) ==
    IF Len(s) # 4 THEN [ok |-> FALSE, date |-> <<>>, exc |-> "AttributeError"]
    ELSE LET t == ReplaceZ(s)
         IN  IF IsoParseable(t)
             THEN [ok |-> TRUE, date |-> <<t[1], t[2], t[3]>>, exc |-> ""]
             ELSE [ok |-> FALSE, date |-> <<>>, exc |-> "ValueError"]

-----------------------------------------------------------------------------
(* Failures of the fetch: the exceptions httpx raises *)

\* raise_for_status() on a non-2xx response: its status, whether its body is
\* JSON, the body text and what the body parses to
HTTPError(status, isJson, text, parsed) ==
    [cls |-> "HTTPStatusError", status |-> status, json |-> isJson,
     text |-> text, parsed |-> parsed, msg |-> ""]

TransportError(cls, msg) ==
    [cls |-> cls, status |-> 0, json |-> FALSE, text |-> "", parsed |-> "",
     msg |-> msg]

Failures ==
    { HTTPError(401, FALSE, "Unauthorized", ""),
      HTTPError(403, FALSE, "Forbidden", ""),
      HTTPError(404, FALSE, "Not Found", ""),
      HTTPError(429, FALSE, "Too Many Requests", ""),
      HTTPError(500, TRUE, "\"Internal error\"", "Internal error"),
      HTTPError(302, FALSE, "", ""),
      TransportError("ReadTimeout", "The read operation timed out"),
      TransportError("ConnectError", "All connection attempts failed"),
      TransportError("ReadError", "Connection reset by peer") }

\* isinstance(e, cls) over the httpx exception hierarchy
IsInstance(e, cls) ==
    CASE cls = "HTTPStatusError" -> e.cls = "HTTPStatusError"
      [] cls = "TimeoutException" ->
            e.cls \in {"TimeoutException", "ConnectTimeout", "ReadTimeout",
                       "WriteTimeout", "PoolTimeout"}
      [] cls = "ConnectError" -> e.cls = "ConnectError"
      [] OTHER -> FALSE

MsgAuthenticationFailed == "Authentication failed. Check username and password."
MsgPermissionDenied == "Permission denied. Check your Oracle Fusion role permissions."
MsgNotFound == "Resource not found. Check the endpoint or filter parameters."
MsgRateLimited == "Rate limit exceeded. Wait before retrying."
MsgTimeout == "Request timed out. Oracle Fusion may be slow or unreachable."
MsgConnectionFailed == "Connection failed. Check the base URL and network connectivity."
MsgUpstreamError(status) == "API error " \o ToString(status)
MsgUnexpected(e) == "Unexpected error: " \o e.cls \o ": " \o e.msg

\* try: detail = e.response.json()  except: detail = e.response.text
ErrorDetail(e) == IF e.json THEN e.parsed ELSE e.text

\* variant of _handle_api_error: 429 is not special-cased
HandleApiError_no429(e) ==
    IF IsInstance(e, "HTTPStatusError")
    THEN IF e.status = 401 THEN [error |-> MsgAuthenticationFailed]
         ELSE IF e.status = 403 THEN [error |-> MsgPermissionDenied]
         ELSE IF e.status = 404 THEN [error |-> MsgNotFound]
         ELSE [error |-> MsgUpstreamError(e.status), detail |-> ErrorDetail(e)]
    ELSE IF IsInstance(e, "TimeoutException") THEN [error |-> MsgTimeout]
    ELSE IF IsInstance(e, "ConnectError") THEN [error |-> MsgConnectionFailed]
    ELSE [error |-> MsgUnexpected(e)]

\* _handle_api_error(e)
HandleApiError(e) ==
    IF IsInstance(e, "HTTPStatusError")
    THEN IF e.status = 401 THEN [error |-> MsgAuthenticationFailed]
         ELSE IF e.status = 403 THEN [error |-> MsgPermissionDenied]
         ELSE IF e.status = 404 THEN [error |-> MsgNotFound]
         ELSE IF e.status = 429 THEN [error |-> MsgRateLimited]
         ELSE [error |-> MsgUpstreamError(e.status), detail |-> ErrorDetail(e)]
    ELSE IF IsInstance(e, "TimeoutException") THEN [error |-> MsgTimeout]
    ELSE IF IsInstance(e, "ConnectError") THEN [error |-> MsgConnectionFailed]
    ELSE [error |-> MsgUnexpected(e)]

-----------------------------------------------------------------------------
(* The upstream collaborator: records, query evaluation, replies *)

\* An upstream invoice record; k gives the fields the data sets vary.
MkInvoice(i, k) ==
    [CustomerTransactionId |-> Some(i),
     TransactionNumber     |-> Some("INV" \o ToString(i)),
     CustomerAccountId     |-> Some(k.cust),
     BillToCustomerName    |-> k.name,
     TransactionDate       |-> Some(<<2024, 1, 1, "">>),
     DueDate               |-> k.due,
     EnteredAmount         |-> k.amount,
     BalanceDue            |-> k.balance,
     EnteredCurrencyCode   |-> Some("USD"),
     Status                |-> Some("Open"),
     BusinessUnit          |-> Some("BU1")]

MkReceipt(i, k) ==
    [CashReceiptId     |-> Some(i),
     ReceiptNumber     |-> Some("RCPT" \o ToString(i)),
     CustomerAccountId |-> Some(k.cust),
     CustomerName      |-> k.name,
     ReceiptDate       |-> Some(<<2024, 2, 1, "">>),
     Amount            |-> k.amount,
     CurrencyCode      |-> Some("USD"),
     Status            |-> Some("Applied"),
     PaymentMethod     |-> Some("Check"),
     BusinessUnit      |-> Some("BU1")]

MkActivity(i, k) ==
    [ActivityId        |-> Some(i),
     CustomerAccountId |-> Some(k.cust),
     CustomerName      |-> k.name,
     TransactionNumber |-> Some("INV" \o ToString(i)),
     TransactionType   |-> Some("Invoice"),
     TransactionDate   |-> Some(<<2024, 1, 1, "">>),
     Amount            |-> k.amount,
     CurrencyCode      |-> Some("USD"),
     Status            |-> Some("Open")]

\* q is None or Some(clauses), each clause <<Field, value>>: the text
\* "Field=value", the clauses joined by ";".  A record matches when every
\* clause's field has that value.
Matches(rec, q) ==
    q = None \/ \A j \in 1..Len(q[1]) : rec[q[1][j][1]] = Some(q[1][j][2])

\* the records of a resource that match q, in the resource's order
Select(store, q) ==
    LET Test(rec) == Matches(rec, q) IN SelectSeq(store, Test)

Min(a, b) == IF a <= b THEN a ELSE b

\* the page [offset, offset + limit) of the matching records, and whether
\* records remain after it
Page(matching, query) ==
    LET off  == OrZero(query.offset)
        lim  == query.limit
        last == Min(Len(matching), off + lim)
    IN  [items   |-> Some(IF off >= Len(matching) THEN <<>>
                          ELSE SubSeq(matching, off + 1, last)),
         hasMore |-> Some(off + lim < Len(matching))]

\* a 2xx body without "items" or "hasMore"
EmptyBody == [items |-> None, hasMore |-> None]

\* an in-flight GET
Request(endpoint, auth, query) ==
    [endpoint |-> endpoint, auth |-> auth, query |-> query]

NoRequest == Request("", "", [limit |-> 0, offset |-> None, q |-> None])

\* data.get("items", [])
Items(data) == IF data.items = None THEN <<>> ELSE data.items[1]

\* data.get("hasMore", False)
HasMore(data) == IF data.hasMore = None THEN FALSE ELSE data.hasMore[1]

\* _build_auth_header(username, password); the base64 text is kept symbolic
BuildAuthHeader(username, password) == "Basic b64(" \o username \o ":" \o password \o ")"

-----------------------------------------------------------------------------
(* Record projection and aggregation of the listing tools *)

\* variant of the invoice projection: a missing amount is reported as 0
ProjectInvoice_zero(inv) ==
    [invoice_id          |-> inv.CustomerTransactionId,
     invoice_number      |-> inv.TransactionNumber,
     customer_account_id |-> inv.CustomerAccountId,
     customer_name       |-> inv.BillToCustomerName,
     invoice_date        |-> inv.TransactionDate,
     due_date            |-> inv.DueDate,
     amount              |-> Some(OrZero(inv.EnteredAmount)),
     balance_due         |-> Some(OrZero(inv.BalanceDue)),
     currency            |-> inv.EnteredCurrencyCode,
     status              |-> inv.Status,
     business_unit       |-> inv.BusinessUnit]

\* list_invoices: the dict appended for one upstream item
ProjectInvoice(inv) ==
    [invoice_id          |-> inv.CustomerTransactionId,
     invoice_number      |-> inv.TransactionNumber,
     customer_account_id |-> inv.CustomerAccountId,
     customer_name       |-> inv.BillToCustomerName,
     invoice_date        |-> inv.TransactionDate,
     due_date            |-> inv.DueDate,
     amount              |-> inv.EnteredAmount,
     balance_due         |-> inv.BalanceDue,
     currency            |-> inv.EnteredCurrencyCode,
     status              |-> inv.Status,
     business_unit       |-> inv.BusinessUnit]

\* list_receipts: the dict appended for one upstream item
ProjectReceipt(rcpt) ==
    [receipt_id          |-> rcpt.CashReceiptId,
     receipt_number      |-> rcpt.ReceiptNumber,
     customer_account_id |-> rcpt.CustomerAccountId,
     customer_name       |-> rcpt.CustomerName,
     receipt_date        |-> rcpt.ReceiptDate,
     amount              |-> rcpt.Amount,
     currency            |-> rcpt.CurrencyCode,
     status              |-> rcpt.Status,
     payment_method      |-> rcpt.PaymentMethod,
     business_unit       |-> rcpt.BusinessUnit]

\* list_customer_activities: the dict appended for one upstream item
ProjectActivity(act) ==
    [activity_id         |-> act.ActivityId,
     customer_account_id |-> act.CustomerAccountId,
     customer_name       |-> act.CustomerName,
     transaction_number  |-> act.TransactionNumber,
     transaction_type    |-> act.TransactionType,
     transaction_date    |-> act.TransactionDate,
     amount              |-> act.Amount,
     currency            |-> act.CurrencyCode,
     status              |-> act.Status]

\* list_invoices: the success payload
ListInvoicesResponse(data, params) ==
    LET items    == Items(data)
        invoices == [i \in 1..Len(items) |-> ProjectInvoice(items[i])]
    IN  [invoices          |-> invoices,
         count             |-> Len(invoices),
         total_amount      |-> SumOrZero(invoices, "amount"),
         total_balance_due |-> SumOrZero(invoices, "balance_due"),
         has_more          |-> HasMore(data),
         offset            |-> params.offset,
         limit             |-> params.limit]

\* list_receipts: the success payload
ListReceiptsResponse(data, params) ==
    LET items    == Items(data)
        receipts == [i \in 1..Len(items) |-> ProjectReceipt(items[i])]
    IN  [receipts        |-> receipts,
         count           |-> Len(receipts),
         total_collected |-> SumOrZero(receipts, "amount"),
         has_more        |-> HasMore(data),
         offset          |-> params.offset,
         limit           |-> params.limit]

\* list_customer_activities: the success payload
ListActivitiesResponse(data, params) ==
    LET items      == Items(data)
        activities == [i \in 1..Len(items) |-> ProjectActivity(items[i])]
    IN  [activities |-> activities,
         count      |-> Len(activities),
         has_more   |-> HasMore(data),
         offset     |-> params.offset,
         limit      |-> params.limit]

\* test_connection: the success payload
ConnectedResponse(base_url) ==
    [status   |-> "connected",
     base_url |-> base_url,
     message  |-> "Successfully connected to Oracle Fusion. Credentials are valid."]

-----------------------------------------------------------------------------
(* get_customer_summary: composition of the two record sets *)

\* variant of the name resolution: the receipts are consulted first
CustomerName_receiptsFirst(invoices, receipts) ==
    IF receipts # <<>> THEN receipts[1].CustomerName
    ELSE IF invoices # <<>> THEN invoices[1].BillToCustomerName
    ELSE None

\* customer_name: first invoice, else first receipt, else None
CustomerName(invoices, receipts) ==
    IF invoices # <<>> THEN invoices[1].BillToCustomerName
    ELSE IF receipts # <<>> THEN receipts[1].CustomerName
    ELSE None

\* len([i for i in invoices if (i.get("BalanceDue") or 0) > 0])
CountOpen(invoices) ==
    Cardinality({i \in 1..Len(invoices) : OrZero(invoices[i].BalanceDue) > 0})

InvoiceSummary(inv) ==
    [invoice_number |-> inv.TransactionNumber,
     invoice_date   |-> inv.TransactionDate,
     due_date       |-> inv.DueDate,
     amount         |-> inv.EnteredAmount,
     balance_due    |-> inv.BalanceDue,
     status         |-> inv.Status]

ReceiptSummary(rcpt) ==
    [receipt_number |-> rcpt.ReceiptNumber,
     receipt_date   |-> rcpt.ReceiptDate,
     amount         |-> rcpt.Amount,
     payment_method |-> rcpt.PaymentMethod]

\* get_customer_summary: the success payload
SummaryResponse(invoices, receipts, customer_id) ==
    [customer |-> [customer_account_id |-> customer_id,
                   customer_name       |-> CustomerName(invoices, receipts)],
     summary  |-> [total_invoiced      |-> Round2(SumOrZero(invoices, "EnteredAmount")),
                   total_paid          |-> Round2(SumOrZero(receipts, "Amount")),
                   outstanding_balance |-> Round2(SumOrZero(invoices, "BalanceDue")),
                   invoice_count       |-> Len(invoices),
                   open_invoice_count  |-> CountOpen(invoices),
                   receipt_count       |-> Len(receipts)],
     invoices |-> [i \in 1..Len(invoices) |-> InvoiceSummary(invoices[i])],
     receipts |-> [i \in 1..Len(receipts) |-> ReceiptSummary(receipts[i])]]

-----------------------------------------------------------------------------
(* get_aging_summary: classification, accumulation, ordering *)

BucketNames == {"current", "1_30_days", "31_60_days", "61_90_days", "over_90_days"}

\* variant of the bucket boundaries: upper bounds exclusive
Bucket_exclusive(days_past_due) ==
    IF days_past_due <= 0 THEN "current"
    ELSE IF days_past_due < 30 THEN "1_30_days"
    ELSE IF days_past_due < 60 THEN "31_60_days"
    ELSE IF days_past_due < 90 THEN "61_90_days"
    ELSE "over_90_days"

\* the if/elif chain on the signed days_past_due
Bucket(days_past_due) ==
    IF days_past_due <= 0 THEN "current"
    ELSE IF days_past_due <= 30 THEN "1_30_days"
    ELSE IF days_past_due <= 60 THEN "31_60_days"
    ELSE IF days_past_due <= 90 THEN "61_90_days"
    ELSE "over_90_days"

Max(a, b) == IF a >= b THEN a ELSE b

\* variant of the balance test: only negative balances are skipped
SkipBalance_negativeOnly(balance) == balance < 0

\* if balance <= 0: continue
SkipBalance(balance) == balance <= 0

\* if not due_date_str: continue   (None, "" and 0 are falsy)
SkipDueDate(due) == due = None \/ due[1] = <<>> \/ due[1] = <<0>>

EmptyBuckets == [b \in BucketNames |-> [count |-> 0, amount |-> 0]]

\* one iteration of `for inv in invoices`; acc = [buckets, aged]
AgeStep(acc, inv, today) ==
    LET balance == OrZero(inv.BalanceDue)
    IN  IF SkipBalance(balance) THEN acc
        ELSE IF SkipDueDate(inv.DueDate) THEN acc
        ELSE LET parsed == ParseDueDate(inv.DueDate[1])
             IN  IF ~parsed.ok THEN acc
                 ELSE LET days_past_due == DaysBetween(today, parsed.date)
                          bucket == Bucket(days_past_due)
                      IN  [buckets |->
                              [acc.buckets EXCEPT
                                  ![bucket] = [count  |-> @.count + 1,
                                               amount |-> @.amount + balance]],
                           aged |->
                              Append(acc.aged,
                                  [invoice_number |-> inv.TransactionNumber,
                                   customer_name  |-> inv.BillToCustomerName,
                                   due_date       |-> inv.DueDate[1],
                                   days_past_due  |-> Max(0, days_past_due),
                                   balance_due    |-> balance,
                                   aging_bucket   |-> bucket])]

RECURSIVE AgeLoop(_, _, _)
AgeLoop(acc, invoices, today) ==
    IF invoices = <<>> THEN acc
    ELSE AgeLoop(AgeStep(acc, Head(invoices), today), Tail(invoices), today)

RECURSIVE InsertBeforeEqual(_, _)
InsertBeforeEqual(sorted, x) ==
    IF sorted = <<>> THEN <<x>>
    ELSE IF Head(sorted).days_past_due > x.days_past_due
         THEN <<Head(sorted)>> \o InsertBeforeEqual(Tail(sorted), x)
         ELSE <<x>> \o sorted

RECURSIVE InsertAfterEqual(_, _)
\* x goes after every entry whose key is not smaller: equal keys keep the
\* order in which they arrive
InsertAfterEqual(sorted, x) ==
    IF sorted = <<>> THEN <<x>>
    ELSE IF Head(sorted).days_past_due >= x.days_past_due
         THEN <<Head(sorted)>> \o InsertAfterEqual(Tail(sorted), x)
         ELSE <<x>> \o sorted

RECURSIVE SortUnstableFrom(_, _)
SortUnstableFrom(sorted, rest) ==
    IF rest = <<>> THEN sorted
    ELSE SortUnstableFrom(InsertBeforeEqual(sorted, Head(rest)), Tail(rest))

RECURSIVE SortFrom(_, _)
SortFrom(sorted, rest) ==
    IF rest = <<>> THEN sorted
    ELSE SortFrom(InsertAfterEqual(sorted, Head(rest)), Tail(rest))

\* variant of the sort: descending, equal keys in reverse arrival order
SortByDaysDesc_unstable(aged) == SortUnstableFrom(<<>>, aged)

\* aged_invoices.sort(key=lambda x: x["days_past_due"], reverse=True):
\* list.sort is stable, and reverse=True keeps the order of equal keys
SortByDaysDesc(aged) == SortFrom(<<>>, aged)

RECURSIVE SumBuckets(_, _, _)
\* sum(v[field] for v in aging_buckets.values())
SumBuckets(buckets, names, field) ==
    IF names = {} THEN 0
    ELSE LET b == CHOOSE n \in names : TRUE
         IN  buckets[b][field] + SumBuckets(buckets, names \ {b}, field)

\* the success payload of get_aging_summary
AgingPayload(data, today) ==
    LET invoices == Items(data)
        acc      == AgeLoop([buckets |-> EmptyBuckets, aged |-> <<>>], invoices, today)
    IN  [aging_buckets       |-> [b \in BucketNames |->
                                    [count  |-> acc.buckets[b].count,
                                     amount |-> Round2(acc.buckets[b].amount)]],
         total_outstanding   |-> Round2(SumBuckets(acc.buckets, BucketNames, "amount")),
         total_open_invoices |-> SumBuckets(acc.buckets, BucketNames, "count"),
         invoices            |-> SortByDaysDesc(acc.aged),
         has_more            |-> HasMore(data)]

RECURSIVE AnyParseFailure(_)
AnyParseFailure(invoices) ==
    IF invoices = <<>> THEN FALSE
    ELSE LET inv == Head(invoices)
         IN  \/ /\ ~SkipBalance(OrZero(inv.BalanceDue))
                /\ ~SkipDueDate(inv.DueDate)
                /\ ~ParseDueDate(inv.DueDate[1]).ok
             \/ AnyParseFailure(Tail(invoices))

\* variant of the handler body: the date-parse failure is not caught in
\* the loop and reaches the handler's outer except
AgingResponse_uncaught(data, today) ==
    IF AnyParseFailure(Items(data))
    THEN HandleApiError(TransportError("ValueError", "Invalid isoformat string"))
    ELSE AgingPayload(data, today)

\* get_aging_summary after a successful fetch: the loop's own try/except
\* absorbs every parse failure, so the body returns the payload
AgingResponse(data, today) == AgingPayload(data, today)

-----------------------------------------------------------------------------
(* Tool inputs (the pydantic input models) and query construction *)

SummaryLimit == 500

BaseUrl == "https://fusion.example.com"
Credentials == [base_url |-> BaseUrl, username |-> "ar_user", password |-> "secret"]

CustomerArgs == {None, Some("A")}
PageWindows == {[limit |-> 25, offset |-> 0], [limit |-> 1, offset |-> 1]}

AuthInputs == {Credentials}

InvoiceLookupInputs ==
    {[base_url |-> BaseUrl, username |-> "ar_user", password |-> "secret",
      customer_account_id |-> cu, invoice_number |-> n, status |-> st,
      limit |-> w.limit, offset |-> w.offset] :
        cu \in CustomerArgs, n \in {None, Some("INV1")},
        st \in {None, Some("Closed")}, w \in PageWindows}

ReceiptLookupInputs ==
    {[base_url |-> BaseUrl, username |-> "ar_user", password |-> "secret",
      customer_account_id |-> cu, receipt_number |-> n,
      limit |-> w.limit, offset |-> w.offset] :
        cu \in CustomerArgs, n \in {None, Some("RCPT1")}, w \in PageWindows}

CustomerActivityInputs ==
    {[base_url |-> BaseUrl, username |-> "ar_user", password |-> "secret",
      customer_account_id |-> cu, limit |-> w.limit, offset |-> w.offset] :
        cu \in CustomerArgs, w \in PageWindows}

CustomerSummaryInputs ==
    {[base_url |-> BaseUrl, username |-> "ar_user", password |-> "secret",
      customer_account_id |-> cu] : cu \in {"A", "B"}}

AgingInputs ==
    {[base_url |-> BaseUrl, username |-> "ar_user", password |-> "secret",
      customer_account_id |-> cu, limit |-> w.limit, offset |-> w.offset] :
        cu \in CustomerArgs, w \in PageWindows}

\* truthiness of an Optional[str]
Truthy(x) == x # None /\ x[1] # ""

\* filters.append(f"{field}={value}") when the value is truthy
Clause(field, value) == IF Truthy(value) THEN << <<field, value[1]>> >> ELSE <<>>

\* query_params = {"limit", "offset"}, plus "q" when there are filters
QueryParams(limit, offset, filters) ==
    [limit |-> limit, offset |-> Some(offset),
     q |-> IF filters = <<>> THEN None ELSE Some(filters)]

InvoiceFilters(p) ==
    Clause("CustomerAccountId", p.customer_account_id)
        \o Clause("TransactionNumber", p.invoice_number)

ReceiptFilters(p) ==
    Clause("CustomerAccountId", p.customer_account_id)
        \o Clause("ReceiptNumber", p.receipt_number)

CustomerFilter(p) == Clause("CustomerAccountId", p.customer_account_id)

\* {"q": f"CustomerAccountId={customer_id}", "limit": 500}
SummaryQuery(customer_id) ==
    [limit |-> SummaryLimit, offset |-> None,
     q |-> Some(<< <<"CustomerAccountId", customer_id>> >>)]

-----------------------------------------------------------------------------
(* Invocation frames *)

OffFrame ==
    [pc |-> "off", tool |-> "", params |-> None, request |-> NoRequest,
     inv_data |-> None, invoices |-> <<>>, exc |-> None, data |-> None,
     today |-> None,
     response |-> None, sent |-> <<>>]

IdleFrame == [OffFrame EXCEPT !.pc = "idle"]

\* the handler has built its request and awaits the upstream
Await(tool, p, req) ==
    [IdleFrame EXCEPT !.pc = "await", !.tool = tool, !.params = Some(p),
                      !.request = req, !.sent = <<req>>]

\* the handler returns `payload`
Return(frame, payload) ==
    [frame EXCEPT !.pc = "done", !.request = NoRequest, !.response = Some(payload)]

Store(endpoint) ==
    CASE endpoint = "receivablesInvoices" -> upInvoices
      [] endpoint = "standardReceipts" -> upReceipts
      [] endpoint = "receivablesCustomerAccountActivities" -> upActivities

Ok(body) == [ok |-> TRUE, data |-> Some(body), exc |-> None]
Raise(e) == [ok |-> FALSE, data |-> None, exc |-> Some(e)]

\* what `await _make_request(...)` can produce for a request
Replies(req) ==
    {Ok(Page(Select(Store(req.endpoint), req.query.q), req.query)), Ok(EmptyBody)}
        \cup {Raise(e) : e \in Failures}

AuthOf(p) == BuildAuthHeader(p.username, p.password)

Todays == {<<2024, 3, 31>>, <<2024, 3, 1>>}

-----------------------------------------------------------------------------
(* The tools: one action where a handler issues its request, one where it  *)
(* resumes from the await and runs to its return                           *)

Upstream == <<CONFIG, upInvoices, upReceipts, upActivities>>

\* except httpx.HTTPStatusError as e: (401 answered in place) / except Exception
TestConnectionError(e) ==
    IF IsInstance(e, "HTTPStatusError") /\ e.status = 401
    THEN [error |-> MsgAuthenticationFailed]
    ELSE HandleApiError(e)

test_connection_call(c) ==
    /\ calls[c].pc = "idle"
    /\ \E p \in AuthInputs :
         calls' = [calls EXCEPT ![c] =
            Await("test_connection", p,
                  Request("receivablesInvoices", AuthOf(p),
                          [limit |-> 1, offset |-> None, q |-> None]))]
    /\ UNCHANGED Upstream

\* variant: a successful connection test records itself in CONFIG
test_connection_resume_storesConfig(c) ==
    LET f == calls[c] IN
    /\ f.pc = "await" /\ f.tool = "test_connection"
    /\ \E r \in Replies(f.request) :
         /\ calls' = [calls EXCEPT ![c] =
               IF r.ok
               THEN Return(f, ConnectedResponse(f.params[1].base_url))
               ELSE Return([f EXCEPT !.exc = r.exc], TestConnectionError(r.exc[1]))]
         /\ CONFIG' = IF r.ok
                      THEN [base_url |-> Some(f.params[1].base_url),
                            auth_header |-> Some(f.request.auth),
                            authenticated |-> TRUE]
                      ELSE CONFIG
    /\ UNCHANGED <<upInvoices, upReceipts, upActivities>>

test_connection_resume(c) ==
    LET f == calls[c] IN
    /\ f.pc = "await" /\ f.tool = "test_connection"
    /\ \E r \in Replies(f.request) :
         calls' = [calls EXCEPT ![c] =
            IF r.ok
            THEN Return(f, ConnectedResponse(f.params[1].base_url))
            ELSE Return([f EXCEPT !.exc = r.exc], TestConnectionError(r.exc[1]))]
    /\ UNCHANGED Upstream

list_invoices_call(c) ==
    /\ calls[c].pc = "idle"
    /\ \E p \in InvoiceLookupInputs :
         calls' = [calls EXCEPT ![c] =
            Await("list_invoices", p,
                  Request("receivablesInvoices", AuthOf(p),
                          QueryParams(p.limit, p.offset, InvoiceFilters(p))))]
    /\ UNCHANGED Upstream

list_invoices_resume(c) ==
    LET f == calls[c] IN
    /\ f.pc = "await" /\ f.tool = "list_invoices"
    /\ \E r \in Replies(f.request) :
         calls' = [calls EXCEPT ![c] =
            IF r.ok
            THEN Return([f EXCEPT !.data = r.data],
                        ListInvoicesResponse(r.data[1], f.params[1]))
            ELSE Return([f EXCEPT !.exc = r.exc], HandleApiError(r.exc[1]))]
    /\ UNCHANGED Upstream

list_receipts_call(c) ==
    /\ calls[c].pc = "idle"
    /\ \E p \in ReceiptLookupInputs :
         calls' = [calls EXCEPT ![c] =
            Await("list_receipts", p,
                  Request("standardReceipts", AuthOf(p),
                          QueryParams(p.limit, p.offset, ReceiptFilters(p))))]
    /\ UNCHANGED Upstream

list_receipts_resume(c) ==
    LET f == calls[c] IN
    /\ f.pc = "await" /\ f.tool = "list_receipts"
    /\ \E r \in Replies(f.request) :
         calls' = [calls EXCEPT ![c] =
            IF r.ok
            THEN Return([f EXCEPT !.data = r.data],
                        ListReceiptsResponse(r.data[1], f.params[1]))
            ELSE Return([f EXCEPT !.exc = r.exc], HandleApiError(r.exc[1]))]
    /\ UNCHANGED Upstream

list_customer_activities_call(c) ==
    /\ calls[c].pc = "idle"
    /\ \E p \in CustomerActivityInputs :
         calls' = [calls EXCEPT ![c] =
            Await("list_customer_activities", p,
                  Request("receivablesCustomerAccountActivities", AuthOf(p),
                          QueryParams(p.limit, p.offset, CustomerFilter(p))))]
    /\ UNCHANGED Upstream

list_customer_activities_resume(c) ==
    LET f == calls[c] IN
    /\ f.pc = "await" /\ f.tool = "list_customer_activities"
    /\ \E r \in Replies(f.request) :
         calls' = [calls EXCEPT ![c] =
            IF r.ok
            THEN Return([f EXCEPT !.data = r.data],
                        ListActivitiesResponse(r.data[1], f.params[1]))
            ELSE Return([f EXCEPT !.exc = r.exc], HandleApiError(r.exc[1]))]
    /\ UNCHANGED Upstream

get_customer_summary_call(c) ==
    /\ calls[c].pc = "idle"
    /\ \E p \in CustomerSummaryInputs :
         calls' = [calls EXCEPT ![c] =
            Await("get_customer_summary", p,
                  Request("receivablesInvoices", AuthOf(p),
                          SummaryQuery(p.customer_account_id)))]
    /\ UNCHANGED Upstream

\* the second request of get_customer_summary
ReceiptsRequest(p) ==
    Request("standardReceipts", AuthOf(p), SummaryQuery(p.customer_account_id))

\* variant: a failed invoice fetch is taken as no invoices and the receipts
\* are fetched all the same
get_customer_summary_resume_invoices_besteffort(c) ==
    LET f == calls[c] IN
    /\ f.pc = "await" /\ f.tool = "get_customer_summary"
    /\ \E r \in Replies(f.request) :
         calls' = [calls EXCEPT ![c] =
            LET req == ReceiptsRequest(f.params[1])
            IN  [f EXCEPT !.pc = "await2",
                          !.inv_data = r.data,
                          !.exc = r.exc,
                          !.invoices = IF r.ok THEN Items(r.data[1]) ELSE <<>>,
                          !.request = req,
                          !.sent = Append(@, req)]]
    /\ UNCHANGED Upstream

\* resumes from the invoice fetch: a failure goes to the except clause, a
\* result is kept and the receipt fetch is issued
get_customer_summary_resume_invoices(c) ==
    LET f == calls[c] IN
    /\ f.pc = "await" /\ f.tool = "get_customer_summary"
    /\ \E r \in Replies(f.request) :
         calls' = [calls EXCEPT ![c] =
            IF r.ok
            THEN LET req == ReceiptsRequest(f.params[1])
                 IN  [f EXCEPT !.pc = "await2",
                               !.inv_data = r.data,
                               !.invoices = Items(r.data[1]),
                               !.request = req,
                               !.sent = Append(@, req)]
            ELSE Return([f EXCEPT !.exc = r.exc], HandleApiError(r.exc[1]))]
    /\ UNCHANGED Upstream

get_customer_summary_resume_receipts(c) ==
    LET f == calls[c] IN
    /\ f.pc = "await2" /\ f.tool = "get_customer_summary"
    /\ \E r \in Replies(f.request) :
         calls' = [calls EXCEPT ![c] =
            IF r.ok
            THEN Return([f EXCEPT !.data = r.data],
                        SummaryResponse(f.invoices, Items(r.data[1]),
                                        f.params[1].customer_account_id))
            ELSE Return([f EXCEPT !.exc = r.exc], HandleApiError(r.exc[1]))]
    /\ UNCHANGED Upstream

get_aging_summary_call(c) ==
    /\ calls[c].pc = "idle"
    /\ \E p \in AgingInputs :
         calls' = [calls EXCEPT ![c] =
            Await("get_aging_summary", p,
                  Request("receivablesInvoices", AuthOf(p),
                          QueryParams(p.limit, p.offset, CustomerFilter(p))))]
    /\ UNCHANGED Upstream

\* today = date.today() is read after the fetch has returned
get_aging_summary_resume(c) ==
    LET f == calls[c] IN
    /\ f.pc = "await" /\ f.tool = "get_aging_summary"
    /\ \E r \in Replies(f.request) :
         IF r.ok
         THEN \E t \in Todays :
                calls' = [calls EXCEPT ![c] =
                    Return([f EXCEPT !.data = r.data, !.today = Some(t)],
                           AgingResponse(r.data[1], t))]
         ELSE calls' = [calls EXCEPT ![c] =
                    Return([f EXCEPT !.exc = r.exc], HandleApiError(r.exc[1]))]
    /\ UNCHANGED Upstream

\* the returned string is handed to the caller; the frame and its locals go
Deliver(c) ==
    /\ calls[c].pc = "done"
    /\ calls' = [calls EXCEPT ![c] = IdleFrame]
    /\ UNCHANGED Upstream

Next ==
    \E c \in Calls :
        \/ test_connection_call(c)
        \/ test_connection_resume(c)
        \/ list_invoices_call(c)
        \/ list_invoices_resume(c)
        \/ list_receipts_call(c)
        \/ list_receipts_resume(c)
        \/ list_customer_activities_call(c)
        \/ list_customer_activities_resume(c)
        \/ get_customer_summary_call(c)
        \/ get_customer_summary_resume_invoices(c)
        \/ get_customer_summary_resume_receipts(c)
        \/ get_aging_summary_call(c)
        \/ get_aging_summary_resume(c)
        \/ Deliver(c)

-----------------------------------------------------------------------------
(* Upstream data sets and initial states *)

SeqsUpTo(S, n) == UNION {[1..k -> S] : k \in 0..n}

DueMarch1 == Some(<<2024, 3, 1, "">>)

\* <<entered amount, balance due>> of an invoice: absent, 0.125 open,
\* 0.25 with a credit balance of -0.125
InvoiceMoney == {<<None, None>>, <<Some(25), Some(25)>>, <<Some(50), Some(-25)>>}

\* general data: customer A's named invoices vary in money, one kind has
\* neither name nor money; customer B has one kind of invoice
InvoiceKinds ==
    {[cust |-> "A", name |-> Some("Acme"), due |-> DueMarch1,
      amount |-> m[1], balance |-> m[2]] : m \in InvoiceMoney}
    \cup {[cust |-> "A", name |-> None, due |-> DueMarch1,
           amount |-> None, balance |-> None],
          [cust |-> "B", name |-> Some("Bolt"), due |-> DueMarch1,
           amount |-> Some(100), balance |-> Some(100)]}

ReceiptKinds ==
    {[cust |-> "A", name |-> None, amount |-> None],
     [cust |-> "A", name |-> Some("Acme Corp"), amount |-> Some(25)],
     [cust |-> "B", name |-> Some("Bolt Ltd"), amount |-> Some(75)]}

ActivityKinds ==
    <<[cust |-> "A", name |-> Some("Acme"), amount |-> Some(25)],
      [cust |-> "B", name |-> None, amount |-> None]>>

Invoices(kinds) == [i \in 1..Len(kinds) |-> MkInvoice(i, kinds[i])]
Receipts(kinds) == [i \in 1..Len(kinds) |-> MkReceipt(i, kinds[i])]
Activities(kinds) == [i \in 1..Len(kinds) |-> MkActivity(i, kinds[i])]

\* aging data: due dates around every bucket boundary of both reference
\* dates, unparseable texts, texts with a time part, non-strings
AgingDueDates ==
    {None, Some(<<>>), Some(<<20240101>>)}
    \cup {Some(<<2024, 3, 1, t>>) : t \in {"T23:30:00Z", "T23:30:00+00:00", "?"}}
    \cup {Some(<<2023, 2, 29, "">>), Some(<<2024, 13, 1, "">>)}
    \cup {Some(<<d[1], d[2], d[3], "">>) :
            d \in {<<2024, 4, 1>>, <<2024, 3, 31>>, <<2024, 3, 30>>, <<2024, 3, 1>>,
                   <<2024, 2, 29>>, <<2024, 1, 31>>, <<2024, 1, 30>>, <<2024, 1, 1>>,
                   <<2023, 12, 31>>, <<2023, 12, 2>>, <<2023, 12, 1>>}}

AgingKind(due, balance) ==
    [cust |-> "A", name |-> Some("Acme"), due |-> due, amount |-> Some(100),
     balance |-> balance]

\* every due date with every balance, for one-invoice lists
AgingKindsWide ==
    {AgingKind(due, b) : due \in AgingDueDates,
                         b \in {None, Some(-25), Some(0), Some(25), Some(100)}}

\* a closed invoice, an invoice without due date, one with an unparseable
\* due date, and open invoices on four due dates, for longer lists
AgingKindsNarrow ==
    {AgingKind(Some(<<2024, 3, 1, "">>), Some(0)),
     AgingKind(None, Some(25)),
     AgingKind(Some(<<2023, 2, 29, "">>), Some(25))}
    \cup {AgingKind(Some(<<2024, d[1], d[2], "">>), Some(25)) :
            d \in {<<4, 1>>, <<3, 31>>, <<3, 1>>, <<2, 29>>}}

Repeat(x, n) == [i \in 1..n |-> x]

\* bulk data: customer A holds n invoices of 1.00 each, all open
BulkKind == [cust |-> "A", name |-> Some("Acme"), due |-> DueMarch1,
             amount |-> Some(200), balance |-> Some(200)]
BulkSizes == {SummaryLimit - 1, SummaryLimit, SummaryLimit + BulkExtra}

InitialConfig == [base_url |-> None, auth_header |-> None, authenticated |-> FALSE]

InitWith(invoiceLists, receiptLists, activityLists, live) ==
    /\ CONFIG = InitialConfig
    /\ upInvoices \in invoiceLists
    /\ upReceipts \in receiptLists
    /\ upActivities \in activityLists
    /\ calls = [c \in Calls |-> IF c \in live THEN IdleFrame ELSE OffFrame]

Init ==
    InitWith({Invoices(k) : k \in SeqsUpTo(InvoiceKinds, MaxInvoices)},
             {Receipts(k) : k \in SeqsUpTo(ReceiptKinds, MaxReceipts)},
             {Activities(ActivityKinds)},
             {1})

InitAging ==
    InitWith({Invoices(k) : k \in SeqsUpTo(AgingKindsNarrow, MaxAgingLen)
                                    \cup [1..1 -> AgingKindsWide]},
             {<<>>},
             {<<>>},
             {1})

InitBulk ==
    InitWith({Invoices(Repeat(BulkKind, n)) : n \in BulkSizes},
             {Receipts(k) : k \in SeqsUpTo(ReceiptKinds, MaxReceipts)},
             {<<>>},
             {1})

\* two invocations in flight over one upstream: an open invoice of each
\* customer, with or without a receipt of customer A
InitInterleaved ==
    InitWith({Invoices(<<AgingKind(DueMarch1, Some(25)),
                        [cust |-> "B", name |-> Some("Bolt"), due |-> DueMarch1,
                         amount |-> Some(100), balance |-> Some(100)]>>)},
             {<<>>, Receipts(<<[cust |-> "A", name |-> Some("Acme Corp"),
                                amount |-> Some(25)]>>)},
             {Activities(ActivityKinds)},
             {1, 2})

Spec == Init /\ [][Next]_vars
SpecAging == InitAging /\ [][Next]_vars
SpecBulk == InitBulk /\ [][Next]_vars
SpecInterleaved == InitInterleaved /\ [][Next]_vars

-----------------------------------------------------------------------------
(* Vocabulary of the properties *)

Done(c, tool) == calls[c].pc = "done" /\ calls[c].tool = tool

\* the invocation's fetches all returned a body
FetchOk(c) == calls[c].exc = None

Resp(c) == calls[c].response[1]

\* the record list of the last body fetched
Fetched(c) == Items(calls[c].data[1])

IsError(r) == "error" \in DOMAIN r

\* a money value with at most two decimals: a whole number of cents
IsTwoDecimals(x) == x % 2 = 0

\* a due date text that denotes a calendar date, with or without a time part
IsDateText(t) ==
    /\ Len(t) = 4
    /\ t[2] \in 1..12
    /\ t[3] \in 1..DaysInMonth(t[1], t[2])
    /\ t[4] \in {"", "T23:30:00Z", "T23:30:00+00:00"}

\* an invoice of the aging report: positive balance, parseable due date
IsAgeable(inv) ==
    /\ inv.BalanceDue # None
    /\ inv.BalanceDue[1] > 0
    /\ inv.DueDate # None
    /\ IsDateText(inv.DueDate[1])

Ageable(items) == {i \in 1..Len(items) : IsAgeable(items[i])}

\* positions of the detail list that report the invoice numbered n
EntriesOf(detail, n) == {j \in 1..Len(detail) : detail[j].invoice_number = n}

InBucket(detail, b) == {j \in 1..Len(detail) : detail[j].aging_bucket = b}

\* reference date minus due date, in whole days, from a detail entry's text
SignedDays(today, text) == DaysBetween(today, <<text[1], text[2], text[3]>>)

-----------------------------------------------------------------------------
(* C1: in get_aging_summary the five buckets partition the open invoices:  *)
(* every fetched invoice with BalanceDue > 0 and a parseable DueDate is in *)
(* exactly one bucket and once in the detail list, every other invoice in  *)
(* none; the bucket counts add up to total_open_invoices, to the length of *)
(* the detail list and to the number of such invoices.                     *)
C1_BucketsPartitionOpenInvoices ==
    \A c \in Calls :
        (Done(c, "get_aging_summary") /\ FetchOk(c)) =>
            LET items  == Fetched(c)
                r      == Resp(c)
                n      == Cardinality(Ageable(items))
            IN  /\ SumBuckets(r.aging_buckets, BucketNames, "count") = n
                /\ r.total_open_invoices = n
                /\ Len(r.invoices) = n
                /\ \A b \in BucketNames :
                       r.aging_buckets[b].count = Cardinality(InBucket(r.invoices, b))
                /\ \A j \in 1..Len(r.invoices) :
                       r.invoices[j].aging_bucket \in BucketNames
                /\ \A i \in 1..Len(items) :
                       Cardinality(EntriesOf(r.invoices, items[i].TransactionNumber))
                           = IF i \in Ageable(items) THEN 1 ELSE 0

\* a report over three fetched invoices: two open ones in different
\* buckets and one that is left out
C1_Witness ==
    \E c \in Calls :
        /\ Done(c, "get_aging_summary") /\ FetchOk(c)
        /\ Len(Fetched(c)) = 3
        /\ Cardinality(Ageable(Fetched(c))) = 2
        /\ Resp(c).aging_buckets["current"].count = 1
        /\ Resp(c).aging_buckets["31_60_days"].count = 1

-----------------------------------------------------------------------------
(* C2: the bucket of an open invoice follows the signed number of days     *)
(* from its due date to the reference date, upper bounds included:         *)
(* <= 0 current, 1..30 1_30, 31..60 31_60, 61..90 61_90, > 90 over_90;    *)
(* the reported days_past_due is that number, or 0 when it is negative.     *)
(* Due dates 30, 31, 60, 90, 91, 0 and -1 days from 2024-03-31 land where  *)
(* the claim says.                                                         *)
C2_BucketOf(d) ==
    CASE d <= 0 -> "current"
      [] d \in 1..30 -> "1_30_days"
      [] d \in 31..60 -> "31_60_days"
      [] d \in 61..90 -> "61_90_days"
      [] d > 90 -> "over_90_days"

C2_Boundaries ==
    << <<2024, 3, 1, "1_30_days", 30>>,   <<2024, 2, 29, "31_60_days", 31>>,
       <<2024, 1, 31, "31_60_days", 60>>, <<2024, 1, 30, "61_90_days", 61>>,
       <<2024, 1, 1, "61_90_days", 90>>,  <<2023, 12, 31, "over_90_days", 91>>,
       <<2024, 3, 30, "1_30_days", 1>>,   <<2024, 3, 31, "current", 0>>,
       <<2024, 4, 1, "current", 0>> >>

\* C2: bucket and reported days_past_due of every detail entry follow the
\* signed day difference, upper bounds included
C2_BucketBoundaries ==
    \A c \in Calls :
        (Done(c, "get_aging_summary") /\ FetchOk(c)) =>
            LET today == calls[c].today[1]
                r     == Resp(c)
            IN  \A j \in 1..Len(r.invoices) :
                    LET e == r.invoices[j]
                        d == SignedDays(today, e.due_date)
                    IN  /\ e.aging_bucket = C2_BucketOf(d)
                        /\ e.days_past_due = (IF d < 0 THEN 0 ELSE d)
                        /\ today = <<2024, 3, 31>> =>
                             \A k \in 1..Len(C2_Boundaries) :
                                LET x == C2_Boundaries[k]
                                IN  (e.due_date[1] = x[1] /\ e.due_date[2] = x[2]
                                        /\ e.due_date[3] = x[3]) =>
                                    (e.aging_bucket = x[4] /\ e.days_past_due = x[5])

\* an invoice due exactly 30 days before the reference date is reported
C2_Witness ==
    \E c \in Calls :
        /\ Done(c, "get_aging_summary") /\ FetchOk(c)
        /\ \E j \in 1..Len(Resp(c).invoices) :
              /\ SignedDays(calls[c].today[1], Resp(c).invoices[j].due_date) = 30
              /\ Resp(c).invoices[j].aging_bucket = "1_30_days"

-----------------------------------------------------------------------------
(* C3: the detail list of get_aging_summary is in descending order of the  *)
(* reported days_past_due, and entries with equal days_past_due are in the *)
(* order of their records in the fetched list.                             *)
PositionOf(items, n) == CHOOSE i \in 1..Len(items) : items[i].TransactionNumber = n

\* C3: descending by days_past_due, equal keys in fetched order
C3_DetailSortedStable ==
    \A c \in Calls :
        (Done(c, "get_aging_summary") /\ FetchOk(c)) =>
            LET items  == Fetched(c)
                detail == Resp(c).invoices
            IN  \A p, q \in 1..Len(detail) :
                    p < q =>
                        /\ detail[p].days_past_due >= detail[q].days_past_due
                        /\ detail[p].days_past_due = detail[q].days_past_due =>
                              PositionOf(items, detail[p].invoice_number)
                                  < PositionOf(items, detail[q].invoice_number)

\* two invoices with equal days_past_due, fetched before an older one that
\* the sort moves ahead of both
C3_Witness ==
    \E c \in Calls :
        /\ Done(c, "get_aging_summary") /\ FetchOk(c)
        /\ Len(Resp(c).invoices) = 3
        /\ LET items  == Fetched(c)
               detail == Resp(c).invoices
           IN  /\ detail[2].days_past_due = detail[3].days_past_due
               /\ detail[1].days_past_due > detail[2].days_past_due
               /\ PositionOf(items, detail[1].invoice_number) = 3

-----------------------------------------------------------------------------
(* C4: every failure of the upstream fetch is answered, in every tool, by  *)
(* an error payload of exactly one kind and without data fields: 401       *)
(* AuthenticationFailed, 403 PermissionDenied, 404 NotFound, 429           *)
(* RateLimited, another non-2xx status UpstreamError with the status code, *)
(* a timeout Timeout, a failure to connect ConnectionFailed, anything else *)
(* Unexpected with the failure's kind and message.                         *)
Tools == {"test_connection", "list_invoices", "list_receipts",
          "list_customer_activities", "get_customer_summary", "get_aging_summary"}

C4_KindOfFailure(e) ==
    CASE e.cls = "HTTPStatusError" /\ e.status = 401 -> "AuthenticationFailed"
      [] e.cls = "HTTPStatusError" /\ e.status = 403 -> "PermissionDenied"
      [] e.cls = "HTTPStatusError" /\ e.status = 404 -> "NotFound"
      [] e.cls = "HTTPStatusError" /\ e.status = 429 -> "RateLimited"
      [] e.cls = "HTTPStatusError" /\ e.status \notin {401, 403, 404, 429} -> "UpstreamError"
      [] e.cls \in {"ConnectTimeout", "ReadTimeout", "WriteTimeout", "PoolTimeout"} -> "Timeout"
      [] e.cls = "ConnectError" -> "ConnectionFailed"
      [] OTHER -> "Unexpected"

C4_PayloadOfKind(kind, e) ==
    CASE kind = "AuthenticationFailed" -> [error |-> MsgAuthenticationFailed]
      [] kind = "PermissionDenied" -> [error |-> MsgPermissionDenied]
      [] kind = "NotFound" -> [error |-> MsgNotFound]
      [] kind = "RateLimited" -> [error |-> MsgRateLimited]
      [] kind = "UpstreamError" ->
            [error |-> "API error " \o ToString(e.status),
             detail |-> IF e.json THEN e.parsed ELSE e.text]
      [] kind = "Timeout" -> [error |-> MsgTimeout]
      [] kind = "ConnectionFailed" -> [error |-> MsgConnectionFailed]
      [] kind = "Unexpected" ->
            [error |-> "Unexpected error: " \o e.cls \o ": " \o e.msg]

\* C4: a failed fetch ends, in every tool, in the error payload of its one
\* kind, with no data fields
C4_ErrorMapping ==
    \A c \in Calls :
        (calls[c].pc = "done" /\ calls[c].exc # None) =>
            LET e == calls[c].exc[1]
                r == Resp(c)
            IN  /\ calls[c].tool \in Tools
                /\ r = C4_PayloadOfKind(C4_KindOfFailure(e), e)
                /\ DOMAIN r \subseteq {"error", "detail"}
                /\ \A k \in {"AuthenticationFailed", "PermissionDenied", "NotFound",
                             "RateLimited", "UpstreamError", "Timeout",
                             "ConnectionFailed", "Unexpected"} :
                       r = C4_PayloadOfKind(k, e) => k = C4_KindOfFailure(e)

\* the receipt fetch of get_customer_summary was answered 429
C4_Witness ==
    \E c \in Calls :
        /\ Done(c, "get_customer_summary")
        /\ calls[c].exc # None
        /\ calls[c].exc[1].status = 429
        /\ Len(calls[c].sent) = 2
        /\ Resp(c) = [error |-> MsgRateLimited]

-----------------------------------------------------------------------------
(* C5: an invocation ends with a complete success payload or an error      *)
(* payload, never a mixture; get_customer_summary answers a failure of     *)
(* either fetch with an error payload that has none of customer, summary,  *)
(* invoices, receipts; no request is sent twice, and after a failed        *)
(* invoice fetch no further request is sent.                               *)
SuccessKeys(tool) ==
    CASE tool = "test_connection" -> {"status", "base_url", "message"}
      [] tool = "list_invoices" ->
            {"invoices", "count", "total_amount", "total_balance_due",
             "has_more", "offset", "limit"}
      [] tool = "list_receipts" ->
            {"receipts", "count", "total_collected", "has_more", "offset", "limit"}
      [] tool = "list_customer_activities" ->
            {"activities", "count", "has_more", "offset", "limit"}
      [] tool = "get_customer_summary" -> {"customer", "summary", "invoices", "receipts"}
      [] tool = "get_aging_summary" ->
            {"aging_buckets", "total_outstanding", "total_open_invoices",
             "invoices", "has_more"}

\* C5: a complete success payload or an error payload, no request repeated,
\* no request after a failed invoice fetch
C5_AllOrNothing ==
    \A c \in Calls :
        LET f == calls[c] IN
        /\ f.pc = "done" =>
              /\ f.response # None
              /\ IF f.exc = None
                 THEN DOMAIN Resp(c) = SuccessKeys(f.tool)
                 ELSE /\ IsError(Resp(c))
                      /\ DOMAIN Resp(c) \cap SuccessKeys(f.tool) = {}
        /\ f.pc \in {"await", "await2", "done"} =>
              /\ \A i, j \in 1..Len(f.sent) : i # j => f.sent[i] # f.sent[j]
              /\ Len(f.sent) = (IF f.inv_data # None THEN 2 ELSE 1)
              /\ f.inv_data # None =>
                    /\ f.tool = "get_customer_summary"
                    /\ f.sent[1].endpoint = "receivablesInvoices"
                    /\ f.sent[2].endpoint = "standardReceipts"
        /\ f.pc = "await2" => f.exc = None

\* get_customer_summary whose invoice fetch succeeded and whose receipt
\* fetch failed
C5_Witness ==
    \E c \in Calls :
        /\ Done(c, "get_customer_summary")
        /\ calls[c].exc # None
        /\ calls[c].inv_data # None
        /\ calls[c].invoices # <<>>
        /\ Len(calls[c].sent) = 2
        /\ DOMAIN Resp(c) = {"error"}

-----------------------------------------------------------------------------
(* C6: a malformed record does not abort get_aging_summary: whenever the   *)
(* fetch returned a list, the answer is a success payload, the records     *)
(* with a missing field or an unparseable due date are in no bucket and    *)
(* not in the detail list, and every well-formed open invoice is in the    *)
(* detail list with its balance and counted in the totals.                 *)
IsMalformed(inv) ==
    \/ inv.BalanceDue = None
    \/ inv.DueDate = None
    \/ ~IsDateText(inv.DueDate[1])

RECURSIVE C6_BalanceOver(_, _)
C6_BalanceOver(items, positions) ==
    IF positions = {} THEN 0
    ELSE LET i == CHOOSE x \in positions : TRUE
         IN  items[i].BalanceDue[1] + C6_BalanceOver(items, positions \ {i})

\* C6: malformed records are left out, the well-formed open invoices are
\* reported, and the answer is a success payload
C6_MalformedRecordsExcluded ==
    \A c \in Calls :
        (Done(c, "get_aging_summary") /\ FetchOk(c)) =>
            LET items == Fetched(c)
                r     == Resp(c)
                good  == {i \in 1..Len(items) :
                             ~IsMalformed(items[i]) /\ items[i].BalanceDue[1] > 0}
            IN  /\ ~IsError(r)
                /\ DOMAIN r = SuccessKeys("get_aging_summary")
                /\ \A i \in 1..Len(items) :
                       IsMalformed(items[i]) =>
                           EntriesOf(r.invoices, items[i].TransactionNumber) = {}
                /\ \A i \in good :
                       \E j \in 1..Len(r.invoices) :
                           /\ r.invoices[j].invoice_number = items[i].TransactionNumber
                           /\ r.invoices[j].balance_due = items[i].BalanceDue[1]
                           /\ r.invoices[j].due_date = items[i].DueDate[1]
                /\ r.total_open_invoices = Cardinality(good)
                /\ r.total_outstanding = Round2(C6_BalanceOver(items, good))

\* a fetched list with an open invoice whose due date does not parse and a
\* well-formed open invoice, answered with a report of the latter
C6_Witness ==
    \E c \in Calls :
        /\ Done(c, "get_aging_summary") /\ FetchOk(c)
        /\ \E i, k \in 1..Len(Fetched(c)) :
              /\ Fetched(c)[i].BalanceDue = Some(25)
              /\ Fetched(c)[i].DueDate = Some(<<2023, 2, 29, "">>)
              /\ ~IsMalformed(Fetched(c)[k])
              /\ Fetched(c)[k].BalanceDue = Some(25)
        /\ Resp(c).total_open_invoices >= 1

-----------------------------------------------------------------------------
(* C7: every sum a response reports has at most two decimals: total_amount *)
(* and total_balance_due of list_invoices, total_collected of              *)
(* list_receipts, the three totals of get_customer_summary, the bucket     *)
(* amounts and total_outstanding of get_aging_summary; a sum over no       *)
(* records is 0.                                                           *)
C7_ReportedSums(tool, r) ==
    CASE tool = "list_invoices" -> {r.total_amount, r.total_balance_due}
      [] tool = "list_receipts" -> {r.total_collected}
      [] tool = "get_customer_summary" ->
            {r.summary.total_invoiced, r.summary.total_paid,
             r.summary.outstanding_balance}
      [] tool = "get_aging_summary" ->
            {r.aging_buckets[b].amount : b \in BucketNames} \cup {r.total_outstanding}
      [] OTHER -> {}

\* C7: every reported sum has at most two decimals
C7_SumsRoundedAtOutput ==
    \A c \in Calls :
        (calls[c].pc = "done" /\ FetchOk(c)) =>
            \A x \in C7_ReportedSums(calls[c].tool, Resp(c)) : IsTwoDecimals(x)

-----------------------------------------------------------------------------
(* C8: in list_invoices and list_receipts a record whose amount or balance *)
(* due is missing or null adds 0 to the total, is counted in count, and    *)
(* its projected field stays null.                                         *)
RECURSIVE C8_SumPresent(_, _, _)
\* the sum of the values of `field` that are present, over positions 1..n
C8_SumPresent(items, field, n) ==
    IF n = 0 THEN 0
    ELSE (IF items[n][field] = None THEN 0 ELSE items[n][field][1])
         + C8_SumPresent(items, field, n - 1)

\* C8: a null amount adds 0 to the total, is counted, and stays null in the
\* projected record
C8_NullAsZeroNullPreserved ==
    \A c \in Calls :
        /\ (Done(c, "list_invoices") /\ FetchOk(c)) =>
              LET items == Fetched(c)
                  r     == Resp(c)
              IN  /\ r.count = Len(items)
                  /\ Len(r.invoices) = Len(items)
                  /\ r.total_amount = C8_SumPresent(items, "EnteredAmount", Len(items))
                  /\ r.total_balance_due = C8_SumPresent(items, "BalanceDue", Len(items))
                  /\ \A i \in 1..Len(items) :
                        /\ r.invoices[i].amount = items[i].EnteredAmount
                        /\ r.invoices[i].balance_due = items[i].BalanceDue
        /\ (Done(c, "list_receipts") /\ FetchOk(c)) =>
              LET items == Fetched(c)
                  r     == Resp(c)
              IN  /\ r.count = Len(items)
                  /\ Len(r.receipts) = Len(items)
                  /\ r.total_collected = C8_SumPresent(items, "Amount", Len(items))
                  /\ \A i \in 1..Len(items) : r.receipts[i].amount = items[i].Amount

\* list_invoices over an invoice without amounts and one with them
C8_Witness ==
    \E c \in Calls :
        /\ Done(c, "list_invoices") /\ FetchOk(c)
        /\ Len(Fetched(c)) = 2
        /\ Fetched(c)[1].EnteredAmount = None
        /\ Fetched(c)[1].BalanceDue = None
        /\ Fetched(c)[2].EnteredAmount = Some(25)
        /\ Resp(c).invoices[1].amount = None
        /\ Resp(c).total_amount = 25
        /\ Resp(c).count = 2

-----------------------------------------------------------------------------
(* C9: the customer name of get_customer_summary is the first fetched      *)
(* invoice's customer name when invoices were fetched, else the first      *)
(* fetched receipt's customer name when receipts were fetched, else null.  *)
C9_CustomerNameFallback ==
    \A c \in Calls :
        (Done(c, "get_customer_summary") /\ FetchOk(c)) =>
            LET invoices == calls[c].invoices
                receipts == Fetched(c)
                name     == Resp(c).customer.customer_name
            IN  /\ Len(invoices) > 0 => name = invoices[1].BillToCustomerName
                /\ (Len(invoices) = 0 /\ Len(receipts) > 0) =>
                       name = receipts[1].CustomerName
                /\ (Len(invoices) = 0 /\ Len(receipts) = 0) => name = None

\* no invoices, one receipt: the receipt's customer name is reported
C9_Witness ==
    \E c \in Calls :
        /\ Done(c, "get_customer_summary") /\ FetchOk(c)
        /\ calls[c].invoices = <<>>
        /\ Len(Fetched(c)) = 1
        /\ Resp(c).customer.customer_name = Some("Acme Corp")

-----------------------------------------------------------------------------
(* C10: get_customer_summary reports, for its customer account id, the     *)
(* totals over all the invoices and all the receipts the upstream holds    *)
(* for that account, whatever their number: total_invoiced, total_paid and *)
(* outstanding_balance (to two decimals) and the open invoice count.       *)
HeldFor(store, customer_id) ==
    LET Test(rec) == rec.CustomerAccountId = Some(customer_id)
    IN  SelectSeq(store, Test)

RECURSIVE C10_SumAll(_, _, _, _)
\* the sum of the values of `field` that are present, over positions lo..hi
C10_SumAll(records, field, lo, hi) ==
    IF lo > hi THEN 0
    ELSE IF lo = hi
         THEN (IF records[lo][field] = None THEN 0 ELSE records[lo][field][1])
    ELSE LET mid == (lo + hi) \div 2
         IN  C10_SumAll(records, field, lo, mid) + C10_SumAll(records, field, mid + 1, hi)

\* C10: the summary's totals cover every record the upstream holds for the
\* customer account
C10_TotalsOverAllRecords ==
    \A c \in Calls :
        (Done(c, "get_customer_summary") /\ FetchOk(c)
            /\ calls[c].inv_data[1].items # None
            /\ calls[c].data[1].items # None) =>
            LET id       == calls[c].params[1].customer_account_id
                invoices == HeldFor(upInvoices, id)
                receipts == HeldFor(upReceipts, id)
                t        == Resp(c).summary
            IN  /\ t.total_invoiced =
                       Round2(C10_SumAll(invoices, "EnteredAmount", 1, Len(invoices)))
                /\ t.total_paid = Round2(C10_SumAll(receipts, "Amount", 1, Len(receipts)))
                /\ t.outstanding_balance =
                       Round2(C10_SumAll(invoices, "BalanceDue", 1, Len(invoices)))
                /\ t.open_invoice_count =
                       Cardinality({i \in 1..Len(invoices) :
                                       invoices[i].BalanceDue # None
                                           /\ invoices[i].BalanceDue[1] > 0})

-----------------------------------------------------------------------------
(* C11: each non-empty filter input of list_invoices restricts the query   *)
(* it sends: customer_account_id, invoice_number and status; without any   *)
(* filter input only limit and offset are sent.                            *)

\* the query list_invoices sent upstream
C11_SentQuery(c) == calls[c].sent[1].query

\* the filter expression holds a clause on the value
C11_Restricts(q, value) ==
    q # None /\ \E i \in 1..Len(q[1]) : q[1][i][2] = value[1]

\* the query of the invocation that differs only in giving no status
C11_QueryWithoutStatus(p) ==
    LET plain == [p EXCEPT !.status = None]
    IN  QueryParams(plain.limit, plain.offset, InvoiceFilters(plain))

\* C11: every non-empty filter input of list_invoices, status included,
\* changes the filter expression sent upstream; no input, no expression
C11_EveryFilterInputRestricts ==
    \A c \in Calls :
        (calls[c].tool = "list_invoices" /\ calls[c].pc \in {"await", "done"}) =>
            LET p == calls[c].params[1]
                q == C11_SentQuery(c).q
            IN  /\ Truthy(p.customer_account_id) =>
                       C11_Restricts(q, p.customer_account_id)
                /\ Truthy(p.invoice_number) => C11_Restricts(q, p.invoice_number)
                /\ Truthy(p.status) =>
                       /\ C11_Restricts(q, p.status)
                       /\ C11_SentQuery(c) # C11_QueryWithoutStatus(p)
                /\ (~Truthy(p.customer_account_id) /\ ~Truthy(p.invoice_number)
                        /\ ~Truthy(p.status)) =>
                       C11_SentQuery(c) =
                           [limit |-> p.limit, offset |-> Some(p.offset), q |-> None]

-----------------------------------------------------------------------------
(* C12: no state outlives an invocation or is shared between invocations:  *)
(* CONFIG keeps its initial value, a returned invocation leaves neither    *)
(* credentials nor records behind, and two invocations of one tool with    *)
(* the same inputs, the same upstream answers and the same reference date  *)
(* give the same response, whatever ran before or runs beside them.        *)

\* both invocations ran the same tool on the same inputs, received the same
\* answers from the upstream and read the same date
C12_SameRun(c, d) ==
    /\ calls[c].tool = calls[d].tool
    /\ calls[c].params = calls[d].params
    /\ calls[c].exc = calls[d].exc
    /\ calls[c].inv_data = calls[d].inv_data
    /\ calls[c].data = calls[d].data
    /\ calls[c].today = calls[d].today

\* C12: CONFIG is never written, nothing is retained after the return, and
\* equal runs of a tool return equal responses under every interleaving
C12_NoHiddenState ==
    /\ CONFIG = InitialConfig
    /\ \A c \in Calls : calls[c].pc = "idle" => calls[c] = IdleFrame
    /\ \A c, d \in Calls :
        (calls[c].pc = "done" /\ calls[d].pc = "done" /\ C12_SameRun(c, d)) =>
            calls[c].response = calls[d].response

\* two aging reports over the same fetched page on the same date, each with
\* a detail entry, while CONFIG still holds no credentials
C12_Witness ==
    /\ CONFIG.auth_header = None
    /\ \E c, d \in Calls :
        /\ c # d
        /\ Done(c, "get_aging_summary") /\ Done(d, "get_aging_summary")
        /\ FetchOk(c)
        /\ C12_SameRun(c, d)
        /\ Len(Resp(c).invoices) > 0
        /\ Resp(c) = Resp(d)

====
